---- MODULE Spec2Model ----
(***************************************************************************)
(* A model of the circlaris mobile client's dashboard screen               *)
(* (src/app/dashboard.tsx): the date utilities, the preset catalogue, the  *)
(* two-tap range picker, the commit / dismiss handlers and the effect that *)
(* fetches the figures whenever the committed range changes.               *)
(*                                                                         *)
(* Time.  A JS Date is an instant; the model counts instants in hours      *)
(* since 1970-01-01T00:00Z.  The device's timezone is a fixed offset tz    *)
(* (local time = UTC + tz hours).  A handler runs at one reading of the    *)
(* clock: the model's clock has a granularity of hours.                    *)
(*                                                                         *)
(* Strings.  A 'YYYY-MM-DD' key is the sequence of its eight digits (the   *)
(* two dashes stand at fixed places and are left out); strings are         *)
(* compared as JS compares them, code unit by code unit.                   *)
(***************************************************************************)
EXTENDS Integers, Sequences, FiniteSets, TLC

VARIABLES
    now,            \* the wall clock, an instant (hours since the epoch)
    tz,             \* the device's UTC offset in hours
    token,          \* useAuth().token: the bearer token of the session
    ticks,          \* how many days the clock has advanced (bounded)
    mounted,        \* has the mount effect of DashboardScreen run?
    startDate,      \* useState startDate: a Date (instant)
    endDate,        \* useState endDate: a Date (instant)
    rangeModalOpen, \* useState rangeModalOpen
    activePreset,   \* useState activePreset: a label, or ""
    picking,        \* useState picking: [start, end], each a key or NoDate
    figures,        \* useState figures: NoFigures or a response body
    fetchError,     \* useState fetchError: NoError or a message
    fetching,       \* useState fetching
    inflight,       \* the figures requests not yet settled, oldest first
    ev,             \* the last event handled (observation only)
    store,          \* SecureStore: [auth_token, auth_customer]
    auth,           \* AuthProvider state: [token, customer, isLoading]
    loadRead,       \* the startup read of the store, as far as it has come
    signInCall,     \* the signIn call under way, if any, and its position
    signOutCall,    \* the signOut calls under way, oldest first, and their positions
    segment,        \* useSegments()[0]: the screen shown, "index" or "dashboard"
    login,          \* LoginScreen state: [email, password, loading, error]
    loginCall,      \* the login request not yet settled, if any
    loginCalls,     \* how many login requests have been issued (bounded)
    loggingOut,     \* DashboardScreen useState loggingOut
    appEv,          \* the last event of the application shell (observation only)
    pure            \* the last application of a pure function: [fn, arg, result]

\* the state of the dashboard screen
dashVars == <<now, tz, token, ticks, mounted, startDate, endDate, rangeModalOpen,
              activePreset, picking, figures, fetchError, fetching, inflight, ev>>

\* the state of the application shell: store, auth context, router, login
appVars == <<store, auth, loadRead, signInCall, signOutCall, segment, login,
             loginCall, loginCalls, loggingOut, appEv>>

vars == <<dashVars, appVars, pure>>

(***************************************************************************)
(* Bounds of the model.                                                    *)
(***************************************************************************)
\* how many days the clock may advance during a run
MaxTicks == 1
\* the calendar offers the days today-MaxTapBack .. today for tapping
MaxTapBack == 2
\* SpecHandlers: how many requests may be outstanding at once
MaxInFlight == 2

\* the sessions tried: the device's UTC offset, the bearer token the session
\* holds, and the local date and hour at which the screen is mounted
Sessions ==
    { [tz |-> 0 - 5, token |-> "abc",
       y |-> 2024, m |-> 3, d |-> 10, h |-> 9],
      [tz |-> 2, token |-> "test-token",
       y |-> 2024, m |-> 1, d |-> 1, h |-> 23] }

(***************************************************************************)
(* The JS Date arithmetic the date utilities rest on.                      *)
(***************************************************************************)
\* days from 1970-01-01 to the civil date y-m-d (proleptic Gregorian)
DaysFromCivil(y, m, d) ==
    LET yy  == IF m <= 2 THEN y - 1 ELSE y
        era == yy \div 400
        yoe == yy - era * 400
        mp  == IF m > 2 THEN m - 3 ELSE m + 9
        doy == (153 * mp + 2) \div 5 + d - 1
        doe == yoe * 365 + yoe \div 4 - yoe \div 100 + doy
    IN  era * 146097 + doe - 719468

\* the civil date [y, m, d] of a day number
CivilFromDays(z) ==
    LET zz  == z + 719468
        era == zz \div 146097
        doe == zz - era * 146097
        yoe == (doe - doe \div 1460 + doe \div 36524 - doe \div 146096) \div 365
        doy == doe - (365 * yoe + yoe \div 4 - yoe \div 100)
        mp  == (5 * doy + 2) \div 153
        dd  == doy - (153 * mp + 2) \div 5 + 1
        mm  == IF mp < 10 THEN mp + 3 ELSE mp - 9
        yy  == yoe + era * 400 + (IF mm <= 2 THEN 1 ELSE 0)
    IN  [y |-> yy, m |-> mm, d |-> dd]

\* the local calendar day (day number) an instant falls on
LocalDay(t) == (t + tz) \div 24

\* the instant of local midnight at the start of a day number
LocalMidnight(day) == day * 24 - tz

\* date.getFullYear(), date.getMonth() (0-based), date.getDate()
getFullYear(t) == CivilFromDays(LocalDay(t)).y
getMonth(t) == CivilFromDays(LocalDay(t)).m - 1
getDate(t) == CivilFromDays(LocalDay(t)).d

\* new Date(year, monthIndex, day) followed by setHours(0, 0, 0, 0): the
\* month index and the day may lie outside their ranges and carry over
NewDateYMD(year, monthIndex, day) ==
    LET yy == year + (monthIndex \div 12)
        mm == (monthIndex % 12) + 1
    IN  LocalMidnight(DaysFromCivil(yy, mm, 1) + day - 1)

\* today(): new Date() with the time set to local midnight
today == LocalMidnight(LocalDay(now))

\* firstOfMonth(): new Date(), setDate(1), local midnight
firstOfMonth == LocalMidnight(LocalDay(now) - getDate(now) + 1)

\* daysAgo(n): local midnight, then setDate(getDate() - n)
daysAgo(n) == LocalMidnight(LocalDay(now) - n)

(***************************************************************************)
(* Keys: 'YYYY-MM-DD' strings.                                             *)
(***************************************************************************)
\* null, for a key
NoDate == <<>>

\* String(n).padStart(2, '0') for 0 <= n <= 99, as digits
Pad2(n) == <<n \div 10, n % 10>>

\* String(year) for a four-digit year, as digits
Str4(n) == <<n \div 1000, (n \div 100) % 10, (n \div 10) % 10, n % 10>>

\* toApiDate as date.toISOString().split('T')[0]: the UTC calendar fields
toApiDate_UTC(t) ==
    LET c == CivilFromDays(t \div 24)
    IN  Str4(c.y) \o Pad2(c.m) \o Pad2(c.d)

\* toApiDate(date): `${year}-${month}-${day}` from the local calendar fields
toApiDate(t) ==
    Str4(getFullYear(t)) \o Pad2(getMonth(t) + 1) \o Pad2(getDate(t))

\* ParseLocal as new Date(key) would parse: a date-only string is UTC
ParseLocal_UTC(k) ==
    DaysFromCivil(k[1] * 1000 + k[2] * 100 + k[3] * 10 + k[4],
                  k[5] * 10 + k[6],
                  k[7] * 10 + k[8]) * 24

\* new Date(key + 'T00:00:00'): a date-time without offset is local time
ParseLocal(k) ==
    LocalMidnight(DaysFromCivil(k[1] * 1000 + k[2] * 100 + k[3] * 10 + k[4],
                                k[5] * 10 + k[6],
                                k[7] * 10 + k[8]))

\* date.toISOString().split('T')[0]: the key of the UTC calendar day
toISODate(t) ==
    LET c == CivilFromDays(t \div 24)
    IN  Str4(c.y) \o Pad2(c.m) \o Pad2(c.d)

\* the while loop of buildMarkedDates: cur steps by setDate(getDate() + 1)
RECURSIVE MarksFrom(_, _, _, _)
MarksFrom(cur, last, start, end) ==
    IF cur <= last
    THEN LET key == toISODate(cur)
         IN  {[key |-> key, startingDay |-> key = start, endingDay |-> key = end]}
                \cup MarksFrom(cur + 24, last, start, end)
    ELSE {}

\* buildMarkedDates(start, end): the marked days, each with its two flags
buildMarkedDates(start, end) ==
    IF start = NoDate THEN {}
    ELSE IF end = NoDate
    THEN {[key |-> start, startingDay |-> TRUE, endingDay |-> TRUE]}
    ELSE MarksFrom(ParseLocal(start), ParseLocal(end), start, end)

\* a >= b on strings: the first differing code unit decides
RECURSIVE StrGE(_, _)
StrGE(a, b) ==
    IF b = <<>> THEN TRUE
    ELSE IF a = <<>> THEN FALSE
    ELSE IF Head(a) # Head(b) THEN Head(a) > Head(b)
    ELSE StrGE(Tail(a), Tail(b))

(***************************************************************************)
(* The preset catalogue.                                                   *)
(***************************************************************************)
PresetLabels ==
    { "Heute", "Gestern", "Letzte 7 Tage", "Letzte 30 Tage", "Letzte 90 Tage",
      "Letzte 180 Tage", "Letzte 365 Tage", "Aktueller Monat", "Letzter Monat",
      "Jahr bis heute", "Letztes Jahr" }

\* preset.range(), evaluated at the current clock
\* PresetRange with 'Letzte N Tage' reaching back N days, not N - 1
PresetRange_NDaysBack(label) ==
    CASE label = "Letzte 7 Tage"    -> [start |-> daysAgo(7), end |-> today]
      [] label = "Letzte 30 Tage"   -> [start |-> daysAgo(30), end |-> today]
      [] label = "Letzte 90 Tage"   -> [start |-> daysAgo(90), end |-> today]
      [] label = "Letzte 180 Tage"  -> [start |-> daysAgo(180), end |-> today]
      [] label = "Letzte 365 Tage"  -> [start |-> daysAgo(365), end |-> today]
      [] OTHER -> [start |-> today, end |-> today]

\* PresetRange with 'Letzter Monat' ending on the 30th of the previous month
PresetRange_LastMonthTo30th(label) ==
    CASE label = "Letzter Monat"    ->
            [start |-> NewDateYMD(getFullYear(now), getMonth(now) - 1, 1),
             end   |-> NewDateYMD(getFullYear(now), getMonth(now) - 1, 30)]
      [] OTHER -> [start |-> today, end |-> today]

PresetRange(label) ==
    CASE label = "Heute"            -> [start |-> today, end |-> today]
      [] label = "Gestern"          -> [start |-> daysAgo(1), end |-> daysAgo(1)]
      [] label = "Letzte 7 Tage"    -> [start |-> daysAgo(6), end |-> today]
      [] label = "Letzte 30 Tage"   -> [start |-> daysAgo(29), end |-> today]
      [] label = "Letzte 90 Tage"   -> [start |-> daysAgo(89), end |-> today]
      [] label = "Letzte 180 Tage"  -> [start |-> daysAgo(179), end |-> today]
      [] label = "Letzte 365 Tage"  -> [start |-> daysAgo(364), end |-> today]
      [] label = "Aktueller Monat"  -> [start |-> firstOfMonth, end |-> today]
      [] label = "Letzter Monat"    ->
            [start |-> NewDateYMD(getFullYear(now), getMonth(now) - 1, 1),
             end   |-> NewDateYMD(getFullYear(now), getMonth(now), 0)]
      [] label = "Jahr bis heute"   ->
            [start |-> NewDateYMD(getFullYear(now), 0, 1), end |-> today]
      [] label = "Letztes Jahr"     ->
            [start |-> NewDateYMD(getFullYear(now) - 1, 0, 1),
             end   |-> NewDateYMD(getFullYear(now) - 1, 11, 31)]

(***************************************************************************)
(* Values of the screen's state.                                           *)
(***************************************************************************)
\* null, for fetchError; a message m is held as <<m>>
NoError == <<>>
\* null, for figures; a response body b is held as <<b>>
NoFigures == <<>>
\* no argument, for ev
NoArg == <<>>

\* JS truthiness of a string | null
TruthyStr(s) == s # <<>> /\ s[1] # ""

\* the render branch: fetching ? <spinner> : fetchError ? <error box> :
\* figures ? <range bar and cards> : null
FetchState ==
    IF fetching THEN "Loading"
    ELSE IF TruthyStr(fetchError) THEN "Error"
    ELSE IF figures # NoFigures THEN "Success"
    ELSE "Blank"

\* the state of the two-tap picker, read off the pending selection
PickerState ==
    IF picking.start = NoDate THEN "Empty"
    ELSE IF picking.end = NoDate THEN "StartOnly"
    ELSE "Complete"

\* the record of an event: its handler, its argument, and what the picker
\* and the fetch state were when it arrived
Event(op, arg) ==
    [op |-> op, arg |-> arg, picker |-> PickerState, fetch |-> FetchState]

\* headers: { Authorization: `Bearer ${token}` }
AuthorizationHeader == "Bearer " \o token

\* the URL's query and the header of a request for the committed range s .. e
Request(s, e) ==
    [start |-> toApiDate(s), end |-> toApiDate(e), auth |-> AuthorizationHeader]

\* ServerErrorMessage without the status
ServerErrorMessage_NoStatus(status) == "Server error"

\* `Server error (${res.status})`
ServerErrorMessage(status) == "Server error (" \o ToString(status) \o ")"

\* the ways a request can settle: the server's answer to it, or a failure
\* kind "ok": res.ok, and res.json() resolves to the figures of the range;
\* kind "badjson": res.ok, and res.json() rejects with a SyntaxError;
\* kind "status": !res.ok; kind "reject": fetch rejects with a value whose
\* message is a text, the empty string (new Error()) or undefined (NoError)
Outcomes(req) ==
    { [kind |-> "ok", body |-> <<req>>, status |-> 200, message |-> NoError],
      [kind |-> "badjson", body |-> NoFigures, status |-> 200,
       message |-> <<"JSON Parse error: Unexpected token">>],
      [kind |-> "status", body |-> NoFigures, status |-> 503, message |-> NoError],
      [kind |-> "status", body |-> NoFigures, status |-> 404, message |-> NoError],
      [kind |-> "reject", body |-> NoFigures, status |-> 0,
       message |-> <<"Network request failed">>],
      [kind |-> "reject", body |-> NoFigures, status |-> 0, message |-> <<"">>],
      [kind |-> "reject", body |-> NoFigures, status |-> 0, message |-> NoError] }

(***************************************************************************)
(* Init: DashboardScreen after construction (the useState initialisers),   *)
(* before its mount effect has run.                                        *)
(***************************************************************************)
\* InitialRange as a screen that starts on the current month to date would
\* have it
InitialRange_MonthToDate == [start |-> firstOfMonth, end |-> today]

\* useState(() => daysAgo(29)) and useState(today)
InitialRange == [start |-> daysAgo(29), end |-> today]

(***************************************************************************)
(* The application shell around the dashboard: the credential store, the   *)
(* auth context, the router and the login screen.  A string that may be    *)
(* null or undefined is <<>> when absent and <<s>> when present; a text    *)
(* typed into a field is the sequence of its characters.                   *)
(***************************************************************************)
\* token null
NoToken == <<>>
\* customer null or undefined
NoCustomer == <<>>
\* error null (LoginScreen)
NoLoginError == <<>>
\* a key that SecureStore does not hold
NotStored == <<>>

\* the customer profiles a login response may carry
Customers ==
    { [name |-> "Acme", user |-> "Ann", logo |-> "a.png", favicon |-> "a.ico"],
      [name |-> "Bolt", user |-> "", logo |-> "", favicon |-> ""] }

\* JSON.stringify(customer): the serialized text, as its sequence of tokens
JSONstringify(c) ==
    <<"{", "name", ":", c.name, ",", "user", ":", c.user, ",",
      "logo", ":", c.logo, ",", "favicon", ":", c.favicon, "}">>

\* does JSON.parse(text) return (rather than throw)?
JSONparses(text) ==
    /\ Len(text) = 17
    /\ <<text[1], text[2], text[3]>> = <<"{", "name", ":">>
    /\ <<text[5], text[6], text[7]>> = <<",", "user", ":">>
    /\ <<text[9], text[10], text[11]>> = <<",", "logo", ":">>
    /\ <<text[13], text[14], text[15]>> = <<",", "favicon", ":">>
    /\ text[17] = "}"

\* JSON.parse(text) of a text that parses
JSONparse(text) ==
    [name |-> text[4], user |-> text[8], logo |-> text[12], favicon |-> text[16]]

\* a stored customer text that JSON.parse rejects
BrokenCustomerText == <<"{", "name", ":">>

\* useState initialisers of LoginScreen
LoginInitial ==
    [email |-> <<>>, password |-> <<>>, loading |-> FALSE, error |-> NoLoginError]

\* the startup read before any of its two getItemAsync calls has returned
LoadStarted == [token |-> <<>>, customer |-> <<>>, settled |-> FALSE]

\* what the application shell was doing and showing when an event arrived
AppEvent(op, arg) ==
    [op |-> op, arg |-> arg, auth |-> auth, segment |-> segment, store |-> store]

\* the customer of the session the dashboard runs in
SessionCustomer == CHOOSE c \in Customers : c.name = "Acme"

\* the application shell while the dashboard of a signed-in session is shown
SignedIn ==
    /\ store = [auth_token |-> <<token>>,
                auth_customer |-> <<JSONstringify(SessionCustomer)>>]
    /\ auth = [token |-> <<token>>, customer |-> <<SessionCustomer>>,
               isLoading |-> FALSE]
    /\ loadRead = [token |-> <<"ok", <<token>>>>,
                   customer |-> <<"ok", <<JSONstringify(SessionCustomer)>>>>,
                   settled |-> TRUE]
    /\ signInCall = <<>>
    /\ signOutCall = <<>>
    /\ segment = "dashboard"
    /\ login = LoginInitial
    /\ loginCall = <<>>
    /\ loginCalls = 0
    /\ loggingOut = FALSE
    /\ appEv = AppEvent("init", <<>>)

\* no pure function applied yet
NoPure == [fn |-> "none", arg |-> <<>>, result |-> <<>>]

\* DashboardScreen as constructed in the session c
DashboardAt(c) ==
    /\ tz = c.tz
    /\ token = c.token
    /\ now = (DaysFromCivil(c.y, c.m, c.d) * 24 + c.h) - tz
    /\ ticks = 0
    /\ mounted = FALSE
    /\ startDate = InitialRange.start
    /\ endDate = InitialRange.end
    /\ rangeModalOpen = FALSE
    /\ activePreset = "Letzte 30 Tage"
    /\ picking = [start |-> NoDate, end |-> NoDate]
    /\ figures = NoFigures
    /\ fetchError = NoError
    /\ fetching = TRUE
    /\ inflight = <<>>
    /\ ev = Event("init", NoArg)

Init ==
    /\ \E c \in Sessions : DashboardAt(c)
    /\ SignedIn
    /\ pure = NoPure

(***************************************************************************)
(* The figures effect, useEffect(..., [startDate, endDate]).  React runs   *)
(* it after the mount and after every render in which startDate or         *)
(* endDate is not Object.is-equal to its previous value; a handler's       *)
(* render and its effects are flushed before the next event is handled,    *)
(* so the effect is part of the action of the handler that causes it.      *)
(***************************************************************************)
\* FiguresEffect building its URL from the range of the previous render
FiguresEffect_Stale(s, e) ==
    /\ fetching' = TRUE
    /\ fetchError' = NoError
    /\ inflight' = Append(inflight, Request(startDate, endDate))
    /\ UNCHANGED figures

\* FiguresEffect without setFetchError(null)
FiguresEffect_KeepError(s, e) ==
    /\ fetching' = TRUE
    /\ UNCHANGED fetchError
    /\ inflight' = Append(inflight, Request(s, e))
    /\ UNCHANGED figures

\* the effect's body, run for the range s .. e
FiguresEffect(s, e) ==
    /\ fetching' = TRUE
    /\ fetchError' = NoError
    /\ inflight' = Append(inflight, Request(s, e))
    /\ UNCHANGED figures

\* a render after which the effect does not run
NoEffect == UNCHANGED <<fetching, fetchError, inflight, figures>>

\* the first render's effect
Mount ==
    /\ ~mounted
    /\ mounted' = TRUE
    /\ FiguresEffect(startDate, endDate)
    /\ ev' = Event("mount", NoArg)
    /\ UNCHANGED <<appVars, pure, now, tz, token, ticks, startDate, endDate, rangeModalOpen,
                   activePreset, picking>>

(***************************************************************************)
(* The handlers of DashboardScreen.                                        *)
(***************************************************************************)
\* openRangeModal clearing the pending selection instead of seeding it
openRangeModal_Reset ==
    /\ picking' = [start |-> NoDate, end |-> NoDate]
    /\ rangeModalOpen' = TRUE
    /\ ev' = Event("open", NoArg)
    /\ NoEffect
    /\ UNCHANGED <<appVars, pure, now, tz, token, ticks, mounted, startDate, endDate, activePreset>>

openRangeModal ==
    /\ picking' = [start |-> toApiDate(startDate), end |-> toApiDate(endDate)]
    /\ rangeModalOpen' = TRUE
    /\ ev' = Event("open", NoArg)
    /\ NoEffect
    /\ UNCHANGED <<appVars, pure, now, tz, token, ticks, mounted, startDate, endDate, activePreset>>

\* PickingAfterPress with > for >=: a second tap on the start day restarts
PickingAfterPress_Strict(p, d) ==
    IF p.start = NoDate \/ (p.start # NoDate /\ p.end # NoDate)
    THEN [start |-> d, end |-> NoDate]
    ELSE IF StrGE(d, p.start) /\ d # p.start
         THEN [start |-> p.start, end |-> d]
         ELSE [start |-> d, end |-> NoDate]

\* PickingAfterPress without the test for a complete prior selection
PickingAfterPress_NoRestart(p, d) ==
    IF p.start = NoDate
    THEN [start |-> d, end |-> NoDate]
    ELSE IF StrGE(d, p.start)
         THEN [start |-> p.start, end |-> d]
         ELSE [start |-> d, end |-> NoDate]

\* PickingAfterPress without the order test: any second tap ends the range
PickingAfterPress_NoOrder(p, d) ==
    IF p.start = NoDate \/ (p.start # NoDate /\ p.end # NoDate)
    THEN [start |-> d, end |-> NoDate]
    ELSE [start |-> p.start, end |-> d]

\* the pending selection after a tap on the day with key d
PickingAfterPress(p, d) ==
    IF p.start = NoDate \/ (p.start # NoDate /\ p.end # NoDate)
    THEN [start |-> d, end |-> NoDate]
    ELSE IF StrGE(d, p.start)
         THEN [start |-> p.start, end |-> d]
         ELSE [start |-> d, end |-> NoDate]

\* handleDayPress without setActivePreset('')
handleDayPress_KeepsPreset(d) ==
    /\ picking' = PickingAfterPress(picking, d)
    /\ ev' = Event("dayPress", d)
    /\ NoEffect
    /\ UNCHANGED <<appVars, pure, now, tz, token, ticks, mounted, startDate,
                   endDate, rangeModalOpen, activePreset>>

handleDayPress(d) ==
    /\ activePreset' = ""
    /\ picking' = PickingAfterPress(picking, d)
    /\ ev' = Event("dayPress", d)
    /\ NoEffect
    /\ UNCHANGED <<appVars, pure, now, tz, token, ticks, mounted, startDate, endDate, rangeModalOpen>>

\* if (picking.start && picking.end)
PickingComplete(p) == p.start # NoDate /\ p.end # NoDate

\* applyRange testing picking.start alone: a start-only selection is
\* committed as a one-day range
applyRange_StartOnlyCommits ==
    /\ IF picking.start # NoDate
       THEN /\ startDate' = ParseLocal(picking.start)
            /\ endDate' = ParseLocal(IF picking.end = NoDate THEN picking.start
                                     ELSE picking.end)
            /\ FiguresEffect(startDate', endDate')
       ELSE /\ UNCHANGED <<startDate, endDate>>
            /\ NoEffect
    /\ rangeModalOpen' = FALSE
    /\ ev' = Event("apply", NoArg)
    /\ UNCHANGED <<appVars, pure, now, tz, token, ticks, mounted, activePreset, picking>>

\* applyRange: both setters get a new Date object, so the effect runs
applyRange ==
    /\ IF PickingComplete(picking)
       THEN /\ startDate' = ParseLocal(picking.start)
            /\ endDate' = ParseLocal(picking.end)
            /\ FiguresEffect(startDate', endDate')
       ELSE /\ UNCHANGED <<startDate, endDate>>
            /\ NoEffect
    /\ rangeModalOpen' = FALSE
    /\ ev' = Event("apply", NoArg)
    /\ UNCHANGED <<appVars, pure, now, tz, token, ticks, mounted, activePreset, picking>>

\* applyPreset filling the pending selection and waiting for Anwenden
applyPreset_PendingOnly(label) ==
    /\ picking' = [start |-> toApiDate(PresetRange(label).start),
                   end |-> toApiDate(PresetRange(label).end)]
    /\ activePreset' = label
    /\ ev' = Event("preset", <<label>>)
    /\ NoEffect
    /\ UNCHANGED <<appVars, pure, now, tz, token, ticks, mounted, startDate, endDate,
                   rangeModalOpen>>

\* applyPreset: the range is computed now; new Date objects, the effect runs
applyPreset(label) ==
    /\ startDate' = PresetRange(label).start
    /\ endDate' = PresetRange(label).end
    /\ activePreset' = label
    /\ rangeModalOpen' = FALSE
    /\ FiguresEffect(startDate', endDate')
    /\ ev' = Event("preset", <<label>>)
    /\ UNCHANGED <<appVars, pure, now, tz, token, ticks, mounted, picking>>

\* dismissModal committing a complete pending selection on its way out
dismissModal_Commits ==
    /\ IF PickingComplete(picking)
       THEN /\ startDate' = ParseLocal(picking.start)
            /\ endDate' = ParseLocal(picking.end)
            /\ FiguresEffect(startDate', endDate')
       ELSE /\ UNCHANGED <<startDate, endDate>>
            /\ NoEffect
    /\ rangeModalOpen' = FALSE
    /\ ev' = Event("dismiss", NoArg)
    /\ UNCHANGED <<appVars, pure, now, tz, token, ticks, mounted, activePreset, picking>>

\* onPress of the backdrop and of Abbrechen: setRangeModalOpen(false)
dismissModal ==
    /\ rangeModalOpen' = FALSE
    /\ ev' = Event("dismiss", NoArg)
    /\ NoEffect
    /\ UNCHANGED <<appVars, pure, now, tz, token, ticks, mounted, startDate, endDate, activePreset,
                   picking>>

(***************************************************************************)
(* A request settles: the promise chain of the effect.                     *)
(***************************************************************************)
\* the sequence q without its i-th element
RemoveAt(q, i) == SubSeq(q, 1, i - 1) \o SubSeq(q, i + 1, Len(q))

\* err.message ?? 'Failed to load figures.'
CaughtMessage(message) ==
    IF message = NoError THEN <<"Failed to load figures.">> ELSE message

\* Settle without the finally: fetching stays as it is
Settle_NoFinally(i, o) ==
    /\ inflight' = RemoveAt(inflight, i)
    /\ CASE o.kind = "ok" ->
              /\ figures' = o.body
              /\ UNCHANGED fetchError
         [] o.kind = "status" ->
              /\ fetchError' = <<ServerErrorMessage(o.status)>>
              /\ UNCHANGED figures
         [] o.kind \in {"reject", "badjson"} ->
              /\ fetchError' = CaughtMessage(o.message)
              /\ UNCHANGED figures
    /\ UNCHANGED fetching
    /\ ev' = Event("settle", <<o>>)
    /\ UNCHANGED <<appVars, pure, now, tz, token, ticks, mounted, startDate, endDate,
                   rangeModalOpen, activePreset, picking>>

Settle(i, o) ==
    /\ inflight' = RemoveAt(inflight, i)
    /\ CASE o.kind = "ok" ->
              /\ figures' = o.body
              /\ UNCHANGED fetchError
         [] o.kind = "status" ->
              /\ fetchError' = <<ServerErrorMessage(o.status)>>
              /\ UNCHANGED figures
         [] o.kind \in {"reject", "badjson"} ->
              /\ fetchError' = CaughtMessage(o.message)
              /\ UNCHANGED figures
    /\ fetching' = FALSE
    /\ ev' = Event("settle", <<o>>)
    /\ UNCHANGED <<appVars, pure, now, tz, token, ticks, mounted, startDate, endDate, rangeModalOpen,
                   activePreset, picking>>

\* a pending request settles, in any order
Response ==
    /\ mounted
    /\ \E i \in 1 .. Len(inflight) : \E o \in Outcomes(inflight[i]) : Settle(i, o)

(***************************************************************************)
(* The clock advances by a day.                                            *)
(***************************************************************************)
Tick ==
    /\ mounted
    /\ ticks < MaxTicks
    /\ ticks' = ticks + 1
    /\ now' = now + 24
    /\ ev' = Event("tick", NoArg)
    /\ UNCHANGED <<appVars, pure, tz, token, mounted, startDate, endDate, rangeModalOpen,
                   activePreset, picking, figures, fetchError, fetching,
                   inflight>>

(***************************************************************************)
(* The screen as rendered: which handlers the user can reach.              *)
(***************************************************************************)
\* RangeBarRendered for a range bar placed outside the three-way branch
RangeBarRendered_Always == TRUE

\* the range bar is rendered in the branch that shows the figures
RangeBarRendered == FetchState = "Success"

\* disabled={!picking.start || !picking.end} of Anwenden
ApplyDisabled == picking.start = NoDate \/ picking.end = NoDate

\* maxDate={toApiDate(today())}
maxDate == toApiDate(today)

\* the days of the calendar the user may try to tap
TapKeys == { toApiDate(daysAgo(k - 1)) : k \in 0 .. MaxTapBack + 1 }

PressRangeBar ==
    /\ mounted /\ ~rangeModalOpen /\ RangeBarRendered
    /\ openRangeModal

\* the calendar delivers a press only for a day up to maxDate
TapDay ==
    /\ mounted /\ rangeModalOpen
    /\ \E d \in TapKeys : StrGE(maxDate, d) /\ handleDayPress(d)

PressApply ==
    /\ mounted /\ rangeModalOpen /\ ~ApplyDisabled
    /\ applyRange

PressPreset ==
    /\ mounted /\ rangeModalOpen
    /\ \E label \in PresetLabels : applyPreset(label)

PressDismiss ==
    /\ mounted /\ rangeModalOpen
    /\ dismissModal

Next ==
    \/ Mount
    \/ PressRangeBar
    \/ TapDay
    \/ PressApply
    \/ PressPreset
    \/ PressDismiss
    \/ Response
    \/ Tick

Spec == Init /\ [][Next]_vars

\* The same program with its scheduling: React runs the effect of the mounted
\* screen, and a request that was issued settles (fetch resolves or rejects).
SpecLive == Spec /\ WF_vars(Mount) /\ WF_vars(Response)

(***************************************************************************)
(* The handlers called in any order, whatever is rendered: the contract    *)
(* of each handler and of the effect, as any caller of them may rely on    *)
(* it.  The screen is mounted at one clock reading, the clock stands       *)
(* still, and the calls draw their arguments from small sets.              *)
(***************************************************************************)
\* the days passed to handleDayPress: yesterday and today
HandlerTapKeys == { toApiDate(daysAgo(1)), toApiDate(today) }

\* the presets passed to applyPreset
HandlerPresets == { "Gestern", "Letzte 7 Tage" }

InitHandlers == Init /\ tz = 2

CallOpen == mounted /\ openRangeModal

CallDayPress == mounted /\ \E d \in HandlerTapKeys : handleDayPress(d)

CallApply == mounted /\ Len(inflight) < MaxInFlight /\ applyRange

CallPreset ==
    /\ mounted /\ Len(inflight) < MaxInFlight
    /\ \E label \in HandlerPresets : applyPreset(label)

CallDismiss == mounted /\ dismissModal

NextHandlers ==
    \/ Mount
    \/ CallOpen
    \/ CallDayPress
    \/ CallApply
    \/ CallPreset
    \/ CallDismiss
    \/ Response

SpecHandlers == InitHandlers /\ [][NextHandlers]_vars

(***************************************************************************)
(* The date utilities on their own: applied once at a clock reading and    *)
(* UTC offset drawn from wider sets than the sessions of the screen.       *)
(***************************************************************************)
\* the UTC offsets tried, in hours
PureZones == (0 - 12) .. 14

\* the local dates and hours at which the utilities are applied
PureDates ==
    { <<2024, 6, 15>>, <<2024, 3, 10>>, <<2024, 1, 1>>, <<2024, 3, 31>>,
      <<2023, 12, 31>>, <<2025, 3, 1>>, <<2024, 2, 29>> }

PureHours == {0, 12, 23}

\* toApiDate is applied to dates of the days today - MaxDaysBack .. today
MaxDaysBack == 2

InitPure ==
    /\ \E z \in PureZones, date \in PureDates, hour \in PureHours :
          DashboardAt([tz |-> z, token |-> "abc", y |-> date[1], m |-> date[2],
                       d |-> date[3], h |-> hour])
    /\ SignedIn
    /\ pure = NoPure

\* preset.range() of one preset
EvalPreset ==
    /\ \E label \in PresetLabels :
          pure' = [fn |-> "preset", arg |-> <<label>>, result |-> PresetRange(label)]
    /\ UNCHANGED <<dashVars, appVars>>

\* toApiDate of four Dates of one local day: daysAgo(k), that day parsed
\* from its key, that day built from its calendar fields, and its last hour
EvalToApiDate ==
    /\ \E k \in 0 .. MaxDaysBack :
          LET date == daysAgo(k)
          IN  pure' = [fn |-> "toApiDate", arg |-> <<k>>,
                       result |->
                          <<toApiDate(date),
                            toApiDate(ParseLocal(toApiDate(date))),
                            toApiDate(NewDateYMD(getFullYear(date), getMonth(date),
                                                 getDate(date))),
                            toApiDate(date + 23)>>]
    /\ UNCHANGED <<dashVars, appVars>>

NextPure == EvalPreset \/ EvalToApiDate

SpecPure == InitPure /\ [][NextPure]_vars

(***************************************************************************)
(* The application shell: AuthProvider, NavigationGuard, LoginScreen and   *)
(* the Log Out button.  An async function is one action per await: the     *)
(* code up to the next await runs without interruption, and the renders    *)
(* and effects it causes are flushed before the next event.                *)
(***************************************************************************)
\* how many login requests a run may issue
MaxLoginCalls == 2

\* the texts typed into the email field and into the password field
EmailTexts == { <<>>, <<" ">>, <<" ", "a", "@", "b", " ">> }
PasswordTexts == { <<>>, <<" ", " ">>, <<"p", "w">> }

\* String.prototype.trim on a text
RECURSIVE TrimStart(_)
TrimStart(t) ==
    IF t # <<>> /\ Head(t) = " " THEN TrimStart(Tail(t)) ELSE t

RECURSIVE TrimEnd(_)
TrimEnd(t) ==
    IF t # <<>> /\ t[Len(t)] = " " THEN TrimEnd(SubSeq(t, 1, Len(t) - 1)) ELSE t

Trim(t) == TrimEnd(TrimStart(t))

\* what SecureStore may hold when the application starts
StoresAtStart ==
    { [auth_token |-> NotStored, auth_customer |-> NotStored],
      [auth_token |-> <<"t0">>, auth_customer |-> <<JSONstringify(SessionCustomer)>>],
      [auth_token |-> <<"t0">>, auth_customer |-> NotStored],
      [auth_token |-> <<"t0">>, auth_customer |-> <<BrokenCustomerText>>] }

\* the parsed body of a login response; {} when the body is not JSON
LoginData(tok, acc, dtok, cust, msg, err) ==
    [token |-> tok, access_token |-> acc, dataToken |-> dtok, customer |-> cust,
     message |-> msg, error |-> err]

EmptyData == LoginData(<<>>, <<>>, <<>>, NoCustomer, <<>>, <<>>)

\* the ways the login request may settle
LoginOutcomes ==
    LET a == <<CHOOSE c \in Customers : c.name = "Acme">>
        b == <<CHOOSE c \in Customers : c.name = "Bolt">>
        Ok(d) == [kind |-> "response", ok |-> TRUE, status |-> 200, data |-> d]
        Bad(st, d) == [kind |-> "response", ok |-> FALSE, status |-> st, data |-> d]
    IN  { [kind |-> "reject", ok |-> FALSE, status |-> 0, data |-> EmptyData],
          Ok(LoginData(<<"t1">>, <<>>, <<>>, a, <<>>, <<>>)),
          Ok(LoginData(<<>>, <<"t2">>, <<>>, b, <<>>, <<>>)),
          Ok(LoginData(<<>>, <<>>, <<"t3">>, a, <<>>, <<>>)),
          Ok(LoginData(<<"t1">>, <<"t2">>, <<"t3">>, b, <<>>, <<>>)),
          Ok(LoginData(<<"">>, <<"t2">>, <<>>, a, <<>>, <<>>)),
          Ok(LoginData(<<>>, <<>>, <<>>, a, <<>>, <<>>)),
          Ok(LoginData(<<"t1">>, <<>>, <<>>, NoCustomer, <<>>, <<>>)),
          Ok(EmptyData),
          Bad(401, LoginData(<<>>, <<>>, <<>>, NoCustomer, <<"Invalid credentials">>, <<"unauthorized">>)),
          Bad(401, LoginData(<<>>, <<>>, <<>>, NoCustomer, <<"">>, <<"unauthorized">>)),
          Bad(500, EmptyData) }

\* a ?? b on strings that may be absent
Coalesce(x, y) == IF x # <<>> THEN x ELSE y

\* LoginToken with access_token looked at before token
LoginToken_AccessFirst(d) ==
    Coalesce(d.access_token, Coalesce(d.token, Coalesce(d.dataToken, <<"">>)))[1]

\* data?.token ?? data?.access_token ?? data?.data?.token ?? ''
LoginToken(d) ==
    Coalesce(d.token, Coalesce(d.access_token, Coalesce(d.dataToken, <<"">>)))[1]

\* LoginFailureMessage with the error field looked at before message
LoginFailureMessage_ErrorFirst(o) ==
    IF TruthyStr(o.data.error) THEN o.data.error[1]
    ELSE IF TruthyStr(o.data.message) THEN o.data.message[1]
    ELSE "Login failed (" \o ToString(o.status) \o ")."

\* data?.message || data?.error || `Login failed (${response.status}).`
LoginFailureMessage(o) ==
    IF TruthyStr(o.data.message) THEN o.data.message[1]
    ELSE IF TruthyStr(o.data.error) THEN o.data.error[1]
    ELSE "Login failed (" \o ToString(o.status) \o ")."

\* GuardTarget without the isLoading return
GuardTarget_IgnoresLoading(a, seg) ==
    IF TruthyStr(a.token) /\ seg # "dashboard" THEN "dashboard"
    ELSE IF ~TruthyStr(a.token) /\ seg = "dashboard" THEN "index"
    ELSE seg

\* NavigationGuard: the screen the guard's effect leaves the router on
GuardTarget(a, seg) ==
    IF a.isLoading THEN seg
    ELSE IF TruthyStr(a.token) /\ seg # "dashboard" THEN "dashboard"
    ELSE IF ~TruthyStr(a.token) /\ seg = "dashboard" THEN "index"
    ELSE seg

\* a login call whose screen has been unmounted: its setState calls are lost
Orphaned(call) ==
    IF call = <<>> THEN call ELSE <<[call[1] EXCEPT !.live = FALSE]>>

\* the render after a handler: the auth state a, and the login state l, the
\* loggingOut flag lo and the login call c if no screen is replaced; a
\* screen the guard replaces is unmounted and the other one mounted afresh
Render(a, l, lo, c) ==
    LET target == GuardTarget(a, segment)
    IN  /\ auth' = a
        /\ segment' = target
        /\ login' = IF target # segment THEN LoginInitial ELSE l
        /\ loggingOut' = IF target # segment THEN FALSE ELSE lo
        /\ loginCall' = IF target # segment THEN Orphaned(c) ELSE c

\* the application at startup: AuthProvider mounted, its reads issued
InitApp ==
    /\ DashboardAt(CHOOSE c \in Sessions : c.tz = 2)
    /\ store \in StoresAtStart
    /\ auth = [token |-> NoToken, customer |-> NoCustomer, isLoading |-> TRUE]
    /\ loadRead = LoadStarted
    /\ signInCall = <<>>
    /\ signOutCall = <<>>
    /\ segment \in {"index", "dashboard"}
    /\ login = LoginInitial
    /\ loginCall = <<>>
    /\ loginCalls = 0
    /\ loggingOut = FALSE
    /\ appEv = AppEvent("init", <<>>)
    /\ pure = NoPure

\* SecureStore.getItemAsync(TOKEN_KEY) returns, or fails
ReadToken ==
    /\ ~loadRead.settled /\ loadRead.token = <<>>
    /\ \E r \in { <<"ok", store.auth_token>>, <<"fail">> } :
          /\ loadRead' = [loadRead EXCEPT !.token = r]
          /\ appEv' = AppEvent("readToken", r)
    /\ UNCHANGED <<dashVars, pure, store, auth, signInCall, signOutCall, segment,
                   login, loginCall, loginCalls, loggingOut>>

\* SecureStore.getItemAsync(CUSTOMER_KEY) returns, or fails
ReadCustomer ==
    /\ ~loadRead.settled /\ loadRead.customer = <<>>
    /\ \E r \in { <<"ok", store.auth_customer>>, <<"fail">> } :
          /\ loadRead' = [loadRead EXCEPT !.customer = r]
          /\ appEv' = AppEvent("readCustomer", r)
    /\ UNCHANGED <<dashVars, pure, store, auth, signInCall, signOutCall, segment,
                   login, loginCall, loginCalls, loggingOut>>

\* AuthAfterLoad without setCustomer: only the token is restored
AuthAfterLoad_TokenOnly(r) ==
    IF r.token = <<"fail">> \/ r.customer = <<"fail">>
    THEN [auth EXCEPT !.isLoading = FALSE]
    ELSE [token |-> r.token[2], customer |-> auth.customer, isLoading |-> FALSE]

\* AuthAfterLoad with setIsLoading(false) as the last statement of the
\* then-callback instead of in finally
AuthAfterLoad_ThenOnly(r) ==
    IF r.token = <<"fail">> \/ r.customer = <<"fail">>
    THEN auth
    ELSE LET storedToken == r.token[2]
             storedCustomer == r.customer[2]
         IN  IF storedCustomer = NotStored
             THEN [token |-> storedToken, customer |-> NoCustomer,
                   isLoading |-> FALSE]
             ELSE IF JSONparses(storedCustomer[1])
             THEN [token |-> storedToken,
                   customer |-> <<JSONparse(storedCustomer[1])>>,
                   isLoading |-> FALSE]
             ELSE [token |-> storedToken, customer |-> auth.customer,
                   isLoading |-> TRUE]

\* the auth state after Promise.all(...).then(...).finally(...) has run
AuthAfterLoad(r) ==
    IF r.token = <<"fail">> \/ r.customer = <<"fail">>
    THEN [auth EXCEPT !.isLoading = FALSE]
    ELSE LET storedToken == r.token[2]
             storedCustomer == r.customer[2]
         IN  IF storedCustomer = NotStored
             THEN [token |-> storedToken, customer |-> NoCustomer,
                   isLoading |-> FALSE]
             ELSE IF JSONparses(storedCustomer[1])
             THEN [token |-> storedToken,
                   customer |-> <<JSONparse(storedCustomer[1])>>,
                   isLoading |-> FALSE]
             ELSE [token |-> storedToken, customer |-> auth.customer,
                   isLoading |-> FALSE]

\* Promise.all settles: on the first failure, or when both reads returned
LoadSettle ==
    /\ ~loadRead.settled
    /\ \/ loadRead.token = <<"fail">>
       \/ loadRead.customer = <<"fail">>
       \/ loadRead.token # <<>> /\ loadRead.customer # <<>>
    /\ loadRead' = [loadRead EXCEPT !.settled = TRUE]
    /\ Render(AuthAfterLoad(loadRead), login, loggingOut, loginCall)
    /\ appEv' = AppEvent("loaded", <<loadRead.token, loadRead.customer>>)
    /\ UNCHANGED <<dashVars, pure, store, signInCall, signOutCall, loginCalls>>

\* onChangeText of the email field
SetEmail ==
    /\ segment = "index" /\ ~login.loading
    /\ \E t \in EmailTexts :
          /\ login' = [login EXCEPT !.email = t, !.error = NoLoginError]
          /\ appEv' = AppEvent("email", <<t>>)
    /\ UNCHANGED <<dashVars, pure, store, auth, loadRead, signInCall, signOutCall,
                   segment, loginCall, loginCalls, loggingOut>>

\* onChangeText of the password field
SetPassword ==
    /\ segment = "index" /\ ~login.loading
    /\ \E t \in PasswordTexts :
          /\ login' = [login EXCEPT !.password = t, !.error = NoLoginError]
          /\ appEv' = AppEvent("password", <<t>>)
    /\ UNCHANGED <<dashVars, pure, store, auth, loadRead, signInCall, signOutCall,
                   segment, loginCall, loginCalls, loggingOut>>

\* Blank without trim: !text
Blank_NoTrim(t) == t = <<>>

\* is a text empty after trimming (!text.trim())?
Blank(t) == Trim(t) = <<>>

\* handleLogin up to its first await: validation, then the request
handleLogin ==
    IF Blank(login.email) \/ Blank(login.password)
    THEN /\ login' = [login EXCEPT
                        !.error = <<"Please enter your email and password.">>]
         /\ appEv' = AppEvent("login", <<"invalid">>)
         /\ UNCHANGED <<loginCall, loginCalls>>
    ELSE /\ loginCall = <<>> /\ loginCalls < MaxLoginCalls
         /\ login' = [login EXCEPT !.error = NoLoginError, !.loading = TRUE]
         /\ loginCall' = <<[email |-> Trim(login.email),
                            password |-> login.password,
                            live |-> TRUE, step |-> "fetch"]>>
         /\ loginCalls' = loginCalls + 1
         /\ appEv' = AppEvent("login", <<"request">>)

\* the Sign In button, and submitting the password field
PressLogin ==
    /\ segment = "index" /\ ~login.loading
    /\ handleLogin
    /\ UNCHANGED <<dashVars, pure, store, auth, loadRead, signInCall, signOutCall,
                   segment, loggingOut>>

\* the LoginScreen state after handleLogin has ended with the error err
\* (<<>>: none set) and its finally has run; lost if the screen is gone
LoginAfter(err) ==
    IF loginCall[1].live /\ segment = "index"
    THEN [login EXCEPT !.error = IF err = <<>> THEN @ ELSE err,
                       !.loading = FALSE]
    ELSE login

\* the login request settles; handleLogin runs on to its end or to signIn
LoginResponse ==
    /\ loginCall # <<>> /\ loginCall[1].step = "fetch"
    /\ \E o \in LoginOutcomes :
          /\ appEv' = AppEvent("response", <<o>>)
          /\ CASE o.kind = "reject" ->
                    /\ login' = LoginAfter(
                          <<"Unable to connect. Please check your internet connection.">>)
                    /\ loginCall' = <<>>
                    /\ UNCHANGED signInCall
               [] o.kind = "response" /\ ~o.ok ->
                    /\ login' = LoginAfter(<<LoginFailureMessage(o)>>)
                    /\ loginCall' = <<>>
                    /\ UNCHANGED signInCall
               [] o.kind = "response" /\ o.ok ->
                    /\ signInCall = <<>>
                    /\ signInCall' = <<[step |-> "token",
                                        token |-> LoginToken(o.data),
                                        customer |-> o.data.customer]>>
                    /\ loginCall' = <<[loginCall[1] EXCEPT !.step = "signIn"]>>
                    /\ UNCHANGED login
    /\ UNCHANGED <<dashVars, pure, store, auth, loadRead, signOutCall, segment,
                   loginCalls, loggingOut>>

\* signIn: SecureStore.setItemAsync(TOKEN_KEY, newToken) has completed
SignInTokenWritten ==
    /\ signInCall # <<>> /\ signInCall[1].step = "token"
    /\ store' = [store EXCEPT !.auth_token = <<signInCall[1].token>>]
    /\ signInCall' = <<[signInCall[1] EXCEPT !.step = "customer"]>>
    /\ appEv' = AppEvent("signInToken", <<signInCall[1].token>>)
    /\ UNCHANGED <<dashVars, pure, auth, loadRead, signOutCall, segment, login,
                   loginCall, loginCalls, loggingOut>>

\* signIn: the customer is written and the state set; without a customer
\* JSON.stringify gives undefined, which setItemAsync rejects, and the
\* catch of handleLogin runs
SignInCustomerWritten ==
    /\ signInCall # <<>> /\ signInCall[1].step = "customer"
    /\ signInCall' = <<>>
    /\ IF signInCall[1].customer = NoCustomer
       THEN /\ appEv' = AppEvent("signInFailed", <<signInCall[1]>>)
            /\ login' = LoginAfter(
                  <<"Unable to connect. Please check your internet connection.">>)
            /\ loginCall' = <<>>
            /\ UNCHANGED <<store, auth, segment, loggingOut>>
       ELSE /\ appEv' = AppEvent("signedIn", <<signInCall[1]>>)
            /\ store' = [store EXCEPT
                           !.auth_customer = <<JSONstringify(signInCall[1].customer[1])>>]
            /\ Render([auth EXCEPT !.token = <<signInCall[1].token>>,
                                   !.customer = signInCall[1].customer],
                      LoginAfter(<<>>), loggingOut, <<>>)
    /\ UNCHANGED <<dashVars, pure, loadRead, signOutCall, loginCalls>>

\* handleLogout without setLoggingOut(true)
handleLogout_NoFlag ==
    /\ UNCHANGED loggingOut
    /\ signOutCall' = Append(signOutCall, [step |-> "token"])
    /\ appEv' = AppEvent("logout", <<>>)

\* handleLogout up to its await: setLoggingOut(true), signOut() called
handleLogout ==
    /\ loggingOut' = TRUE
    /\ signOutCall' = Append(signOutCall, [step |-> "token"])
    /\ appEv' = AppEvent("logout", <<>>)

\* the Log Out button of the dashboard, disabled while loggingOut
PressLogout ==
    /\ segment = "dashboard" /\ ~loggingOut
    /\ handleLogout
    /\ UNCHANGED <<dashVars, pure, store, auth, loadRead, signInCall, segment,
                   login, loginCall, loginCalls>>

\* signOut: SecureStore.deleteItemAsync(TOKEN_KEY) has completed
SignOutTokenDeleted ==
    /\ \E i \in DOMAIN signOutCall :
          /\ signOutCall[i].step = "token"
          /\ signOutCall' = [signOutCall EXCEPT ![i] = [step |-> "customer"]]
    /\ store' = [store EXCEPT !.auth_token = NotStored]
    /\ appEv' = AppEvent("signOutToken", <<>>)
    /\ UNCHANGED <<dashVars, pure, auth, loadRead, signInCall, segment, login,
                   loginCall, loginCalls, loggingOut>>

\* SignOutCustomerDeleted without setCustomer(null)
SignOutCustomerDeleted_TokenOnly ==
    /\ \E i \in DOMAIN signOutCall :
          /\ signOutCall[i].step = "customer"
          /\ signOutCall' = RemoveAt(signOutCall, i)
    /\ store' = [store EXCEPT !.auth_customer = NotStored]
    /\ Render([auth EXCEPT !.token = NoToken], login, loggingOut, loginCall)
    /\ appEv' = AppEvent("signedOut", <<>>)
    /\ UNCHANGED <<dashVars, pure, loadRead, signInCall, loginCalls>>

\* signOut: the customer is deleted and the state cleared
SignOutCustomerDeleted ==
    /\ \E i \in DOMAIN signOutCall :
          /\ signOutCall[i].step = "customer"
          /\ signOutCall' = RemoveAt(signOutCall, i)
    /\ store' = [store EXCEPT !.auth_customer = NotStored]
    /\ Render([auth EXCEPT !.token = NoToken, !.customer = NoCustomer],
              login, loggingOut, loginCall)
    /\ appEv' = AppEvent("signedOut", <<>>)
    /\ UNCHANGED <<dashVars, pure, loadRead, signInCall, loginCalls>>

NextApp ==
    \/ ReadToken
    \/ ReadCustomer
    \/ LoadSettle
    \/ SetEmail
    \/ SetPassword
    \/ PressLogin
    \/ LoginResponse
    \/ SignInTokenWritten
    \/ SignInCustomerWritten
    \/ PressLogout
    \/ SignOutTokenDeleted
    \/ SignOutCustomerDeleted

SpecApp == InitApp /\ [][NextApp]_vars

\* The shell with the scheduling of the startup read: each getItemAsync
\* returns or fails, and the promise chain then runs to its finally.
SpecAppLive ==
    SpecApp /\ WF_vars(ReadToken) /\ WF_vars(ReadCustomer) /\ WF_vars(LoadSettle)


(***************************************************************************)
(* Properties.                                                             *)
(***************************************************************************)
\* the day number a key names: the order of the calendar on keys
KeyDay(k) ==
    DaysFromCivil(k[1] * 1000 + k[2] * 100 + k[3] * 10 + k[4],
                  k[5] * 10 + k[6], k[7] * 10 + k[8])

\* the request for the range s .. e, as the server sees it
RequestFor(s, e) ==
    [start |-> toApiDate(s), end |-> toApiDate(e), auth |-> "Bearer " \o token]

\* C1: a day tap d in the StartOnly state (s, absent) makes the pending
\* selection (s, d) if d is on or after s, and (d, absent) if d is before s.
C1_TapInStartOnly ==
    [][ (ev'.op = "dayPress" /\ picking.start # NoDate /\ picking.end = NoDate)
        => picking' = IF KeyDay(ev'.arg) >= KeyDay(picking.start)
                      THEN [start |-> picking.start, end |-> ev'.arg]
                      ELSE [start |-> ev'.arg, end |-> NoDate] ]_vars

\* C1 witness: a second tap on the start day has made a one-day range
C1_Witness ==
    /\ ev.op = "dayPress" /\ ev.picker = "StartOnly"
    /\ picking.start = ev.arg /\ picking.end = ev.arg

\* C2: a day tap d when the pending selection is Empty or complete makes it
\* (d, absent), whatever it was.
C2_TapStartsNewSelection ==
    [][ (ev'.op = "dayPress"
         /\ (picking.start = NoDate
             \/ (picking.start # NoDate /\ picking.end # NoDate)))
        => picking' = [start |-> ev'.arg, end |-> NoDate] ]_vars

\* C2 witness: a tap on a complete selection has started a new one on a day
\* after the old start
C2_Witness ==
    /\ ev.op = "dayPress" /\ ev.picker = "Complete"
    /\ picking = [start |-> ev.arg, end |-> NoDate]
    /\ KeyDay(ev.arg) > KeyDay(toApiDate(startDate))

\* C3: the committed range always has start <= end.
C3_CommittedOrdered == startDate <= endDate

\* C3 witness: a range of several days picked by hand has been committed
C3_Witness ==
    /\ ev.op = "apply" /\ ev.picker = "Complete" /\ activePreset = ""
    /\ startDate < endDate
    /\ picking = [start |-> toApiDate(startDate), end |-> toApiDate(endDate)]

\* C4: Apply with a complete pending selection makes the committed range
\* exactly [pending.start, pending.end], both at local midnight, and closes
\* the modal.
C4_ApplyCommitsPending ==
    [][ (ev'.op = "apply" /\ picking.start # NoDate /\ picking.end # NoDate)
        => /\ toApiDate(startDate') = picking.start
           /\ toApiDate(endDate') = picking.end
           /\ startDate' = LocalMidnight(KeyDay(picking.start))
           /\ endDate' = LocalMidnight(KeyDay(picking.end))
           /\ ~rangeModalOpen' ]_vars

\* C4 witness: Apply has committed a hand-picked selection that differs
\* from the range of the preset the screen started with
C4_Witness ==
    /\ ev.op = "apply" /\ ev.picker = "Complete" /\ activePreset = ""
    /\ ~rangeModalOpen
    /\ toApiDate(startDate) = picking.start /\ toApiDate(endDate) = picking.end
    /\ KeyDay(picking.end) - KeyDay(picking.start) < 29

\* C5: applyRange with an incomplete pending selection leaves the committed
\* range as it is and issues no figures request.
C5_ApplyIncompleteNoOp ==
    [][ (ev'.op = "apply" /\ (picking.start = NoDate \/ picking.end = NoDate))
        => UNCHANGED <<startDate, endDate, inflight, fetching, fetchError,
                       figures>> ]_vars

\* C5 witness: applyRange has run on a start-only selection
C5_Witness ==
    /\ ev.op = "apply" /\ ev.picker = "StartOnly"
    /\ picking.start # NoDate /\ picking.end = NoDate

\* C6: dismissing the modal leaves the committed range as it is and issues
\* no figures request, whatever was tapped before.
C6_DismissKeepsRange ==
    [][ ev'.op = "dismiss"
        => UNCHANGED <<startDate, endDate, inflight, fetching, fetchError,
                       figures>> ]_vars

\* C6 witness: the modal was dismissed with a complete pending selection
\* that is not the committed range
C6_Witness ==
    /\ ev.op = "dismiss" /\ ev.picker = "Complete" /\ ~rangeModalOpen
    /\ picking # [start |-> toApiDate(startDate), end |-> toApiDate(endDate)]

\* C7 as claimed: whenever the range modal opens, the pending selection is
\* reset to {absent, absent}.
C7_OpenResetsPending ==
    ev.op = "open" => picking = [start |-> NoDate, end |-> NoDate]

\* C7: whenever the range modal opens, the pending selection is set to the
\* committed range, {start: key of committed start, end: key of committed
\* end}, whatever it held before.
C7_OpenSeedsPending ==
    ev.op = "open" =>
        /\ rangeModalOpen
        /\ picking = [start |-> toApiDate(startDate), end |-> toApiDate(endDate)]

\* C7 witness: the modal was opened after a dismissed start-only selection
C7_Witness ==
    /\ ev.op = "open" /\ ev.picker = "StartOnly" /\ rangeModalOpen
    /\ picking.end # NoDate

C9_RangeChangeIssuesRequest ==
    [][ (startDate' # startDate \/ endDate' # endDate \/ (mounted' /\ ~mounted))
        => inflight' = Append(inflight, RequestFor(startDate', endDate')) ]_vars

\* C9 witness: Apply has changed the committed range to one picked day, and
\* the request for that day is outstanding
C9_Witness ==
    /\ ev.op = "apply" /\ ev.picker = "Complete" /\ startDate = endDate
    /\ inflight = <<RequestFor(startDate, endDate)>>
    /\ inflight[1].start = inflight[1].end

\* C10: when a figures request is issued the fetch state is Loading and
\* the error message is cleared, whatever the state was before.
C10_RequestSetsLoading ==
    [][ Len(inflight') > Len(inflight)
        => fetching' = TRUE /\ fetchError' = NoError ]_vars

\* C10 witness: a request was issued while an error was displayed
C10_Witness ==
    /\ ev.op \in {"apply", "preset"} /\ ev.fetch = "Error"
    /\ inflight # <<>> /\ fetching /\ fetchError = NoError

\* the key of a day number, from the calendar
KeyOfDay(n) ==
    LET c == CivilFromDays(n)
    IN  <<c.y \div 1000, (c.y \div 100) % 10, (c.y \div 10) % 10, c.y % 10,
          c.m \div 10, c.m % 10, c.d \div 10, c.d % 10>>

\* a well-formed YYYY-MM-DD key: eight digits, month 01 .. 12, day 01 .. 31
WellFormedKey(k) ==
    /\ Len(k) = 8
    /\ \A i \in 1 .. 8 : k[i] \in 0 .. 9
    /\ k[5] * 10 + k[6] \in 1 .. 12
    /\ k[7] * 10 + k[8] \in 1 .. 31

\* the outcome of the response that settled last
LastOutcome == ev.arg[1]

\* the request issued last
LastRequest == inflight[Len(inflight)]

\* C11: a response with a non-success status s makes the fetch state Error
\* with the message "Server error (s)"; the error is what is displayed, not
\* the spinner and not figures.
C11_StatusBecomesError ==
    (ev.op = "settle" /\ LastOutcome.kind = "status") =>
        /\ fetchError = <<"Server error (" \o ToString(LastOutcome.status) \o ")">>
        /\ (LastOutcome.status = 503 => fetchError = <<"Server error (503)">>)
        /\ (LastOutcome.status = 404 => fetchError = <<"Server error (404)">>)
        /\ ~fetching
        /\ FetchState = "Error"

\* C11 witness: a 503 has replaced the spinner by its message while figures
\* of an earlier range are still held
C11_Witness ==
    /\ ev.op = "settle" /\ LastOutcome.kind = "status" /\ LastOutcome.status = 503
    /\ ev.fetch = "Loading" /\ FetchState = "Error"
    /\ fetchError = <<"Server error (503)">>
    /\ figures # NoFigures

\* C12: a request that fails at transport level makes the fetch state Error
\* with the failure's message, or with "Failed to load figures." if the
\* failure has no message.
C12_TransportFailureBecomesError ==
    (ev.op = "settle" /\ LastOutcome.kind = "reject") =>
        /\ FetchState = "Error"
        /\ fetchError = IF TruthyStr(LastOutcome.message)
                        THEN LastOutcome.message
                        ELSE <<"Failed to load figures.">>

\* C13: a response with success makes its body the held figures and the
\* fetch state Success: no spinner, no error.
C13_SuccessBecomesFigures ==
    (ev.op = "settle" /\ LastOutcome.kind = "ok") =>
        /\ figures = LastOutcome.body
        /\ figures # NoFigures
        /\ ~fetching
        /\ ~TruthyStr(fetchError)
        /\ FetchState = "Success"

\* C13 witness: the figures displayed are those of a range committed by a
\* preset, and replace the figures of another range
C13_Witness ==
    /\ ev.op = "settle" /\ LastOutcome.kind = "ok" /\ ev.fetch = "Loading"
    /\ FetchState = "Success"
    /\ activePreset = "Gestern"
    /\ figures[1].start = toApiDate(startDate) /\ figures[1].end = toApiDate(endDate)
    /\ figures[1].start = figures[1].end

\* C14: in every state exactly one of Loading, Error, Success holds, and
\* the fetch state changes only when the committed range changes (the
\* mount, Apply, a preset) or when a request settles.
C14_ExactlyOneFetchState ==
    /\ FetchState \in {"Loading", "Error", "Success"}
    /\ FetchState # ev.fetch => ev.op \in {"mount", "apply", "preset", "settle"}

C16_AtMostOneOutstanding == Len(inflight) <= 1

\* C16 witness: the user has committed a range from the displayed figures, and
\* its request is the one outstanding
C16_Witness ==
    /\ ev.op \in {"apply", "preset"} /\ ev.fetch = "Success"
    /\ Len(inflight) = 1 /\ fetching

\* C17: every failed request (status, transport failure, unparsable body)
\* is displayed as an error, whatever message the failure carries.
C17_FailureIsDisplayed ==
    (ev.op = "settle" /\ LastOutcome.kind # "ok") => FetchState = "Error"

\* C18: from the Error state the user can retry; as a first step, some
\* action of the user on the range bar or the range picker is possible.
C18_RetryFromError ==
    FetchState = "Error" =>
        ENABLED (PressRangeBar \/ TapDay \/ PressApply \/ PressPreset
                 \/ PressDismiss)

\* C19: each request carries the committed range at the time it is issued,
\* start and end as YYYY-MM-DD keys of the local days, and the session's
\* token as Authorization: Bearer <token>.
C19_RequestCarriesRangeAndToken ==
    (ev.op \in {"mount", "preset"} \/ (ev.op = "apply" /\ ev.picker = "Complete")) =>
        /\ inflight # <<>>
        /\ LastRequest.start = KeyOfDay(LocalDay(startDate))
        /\ LastRequest.end = KeyOfDay(LocalDay(endDate))
        /\ WellFormedKey(LastRequest.start) /\ WellFormedKey(LastRequest.end)
        /\ LastRequest.auth = "Bearer " \o token
        /\ (token = "abc" => LastRequest.auth = "Bearer abc")

\* C19 witness: the request of a hand-picked range of two days east of
\* Greenwich, where local midnight falls on the previous UTC day
C19_Witness ==
    /\ ev.op = "apply" /\ ev.picker = "Complete" /\ tz > 0
    /\ inflight = <<[start |-> picking.start, end |-> picking.end,
                     auth |-> "Bearer test-token"]>>
    /\ KeyDay(picking.end) = KeyDay(picking.start) + 1

\* the days [first, last] a preset stands for on the local day of the clock
ExpectedPresetDays(label) ==
    LET t == LocalDay(now)
        c == CivilFromDays(t)
        lastN == CASE label = "Letzte 7 Tage" -> 7
                   [] label = "Letzte 30 Tage" -> 30
                   [] label = "Letzte 90 Tage" -> 90
                   [] label = "Letzte 180 Tage" -> 180
                   [] label = "Letzte 365 Tage" -> 365
                   [] OTHER -> 1
    IN  CASE label = "Heute" -> <<t, t>>
          [] label = "Gestern" -> <<t - 1, t - 1>>
          [] label = "Aktueller Monat" -> <<DaysFromCivil(c.y, c.m, 1), t>>
          [] label = "Letzter Monat" ->
                <<IF c.m = 1 THEN DaysFromCivil(c.y - 1, 12, 1)
                  ELSE DaysFromCivil(c.y, c.m - 1, 1),
                  DaysFromCivil(c.y, c.m, 1) - 1>>
          [] label = "Jahr bis heute" -> <<DaysFromCivil(c.y, 1, 1), t>>
          [] label = "Letztes Jahr" ->
                <<DaysFromCivil(c.y - 1, 1, 1), DaysFromCivil(c.y - 1, 12, 31)>>
          [] OTHER -> <<t - (lastN - 1), t>>

\* C20: selecting a preset commits its range at once, whatever the pending
\* selection is: the committed range is the preset's range, the modal is
\* closed and the active-preset marker is the preset's label.
C20_PresetCommitsAtOnce ==
    ev.op = "preset" =>
        /\ <<LocalDay(startDate), LocalDay(endDate)>> = ExpectedPresetDays(ev.arg[1])
        /\ startDate = LocalMidnight(LocalDay(startDate))
        /\ endDate = LocalMidnight(LocalDay(endDate))
        /\ ~rangeModalOpen
        /\ activePreset = ev.arg[1]
        /\ inflight # <<>>
        /\ LastRequest.start = toApiDate(startDate)
        /\ LastRequest.end = toApiDate(endDate)

\* C20 witness: 'Letzter Monat' was selected while a start-only selection
\* was pending, and is committed
C20_Witness ==
    /\ ev.op = "preset" /\ ev.arg = <<"Letzter Monat">> /\ ev.picker = "StartOnly"
    /\ picking.end = NoDate
    /\ activePreset = "Letzter Monat" /\ ~rangeModalOpen
    /\ toApiDate(endDate) = KeyOfDay(DaysFromCivil(getFullYear(now), getMonth(now) + 1, 1) - 1)

\* C21: a manual day tap clears the active-preset marker, whatever the
\* pending selection is (Empty, StartOnly, Complete).
C21_DayTapClearsPreset ==
    ev.op = "dayPress" => activePreset = ""

\* C21 witness: the first tap of a session, made with an empty pending
\* selection while the initial preset was still marked
C21_Witness ==
    /\ ev.op = "dayPress" /\ ev.picker = "Empty"
    /\ picking.start = ev.arg /\ picking.end = NoDate
    /\ activePreset = ""
    /\ startDate = InitialRange.start /\ endDate = InitialRange.end

\* the 'Letzte N Tage' presets and their N
LastNDaysPresets ==
    { <<"Letzte 7 Tage", 7>>, <<"Letzte 30 Tage", 30>>, <<"Letzte 90 Tage", 90>>,
      <<"Letzte 180 Tage", 180>>, <<"Letzte 365 Tage", 365>> }

\* C22: for every N in {7, 30, 90, 180, 365} and every current date the
\* preset 'Letzte N Tage' is [today-(N-1), today]: N inclusive calendar
\* days ending today; on 2024-06-15 'Letzte 7 Tage' is 2024-06-09 .. 06-15.
C22_LastNDaysWindow ==
    \A p \in LastNDaysPresets :
        (pure.fn = "preset" /\ pure.arg = <<p[1]>>) =>
            LET first == LocalDay(pure.result.start)
                last == LocalDay(pure.result.end)
            IN  /\ last = LocalDay(now)
                /\ first = last - (p[2] - 1)
                /\ Cardinality(first .. last) = p[2]
                /\ pure.result.start = LocalMidnight(first)
                /\ pure.result.end = LocalMidnight(last)
                /\ (KeyOfDay(LocalDay(now)) = <<2, 0, 2, 4, 0, 6, 1, 5>> /\ p[2] = 7) =>
                      /\ toApiDate(pure.result.start) = <<2, 0, 2, 4, 0, 6, 0, 9>>
                      /\ toApiDate(pure.result.end) = <<2, 0, 2, 4, 0, 6, 1, 5>>

\* C22 witness: 'Letzte 7 Tage' on 2024-06-15, late in the evening far east
C22_Witness ==
    /\ pure.fn = "preset" /\ pure.arg = <<"Letzte 7 Tage">>
    /\ tz = 14 /\ toApiDate(now) = <<2, 0, 2, 4, 0, 6, 1, 5>>
    /\ toApiDate(pure.result.start) = <<2, 0, 2, 4, 0, 6, 0, 9>>
    /\ toApiDate(pure.result.end) = <<2, 0, 2, 4, 0, 6, 1, 5>>

\* C23: for every current date the preset 'Letzter Monat' is [1st of the
\* previous month, last day of the previous month], across a year boundary
\* and for February of a leap year (on 2024-03-10: 2024-02-01 .. 2024-02-29).
C23_LastMonth ==
    (pure.fn = "preset" /\ pure.arg = <<"Letzter Monat">>) =>
        LET c == CivilFromDays(LocalDay(now))
            py == IF c.m = 1 THEN c.y - 1 ELSE c.y
            pm == IF c.m = 1 THEN 12 ELSE c.m - 1
            first == CivilFromDays(LocalDay(pure.result.start))
            last == CivilFromDays(LocalDay(pure.result.end))
            after == CivilFromDays(LocalDay(pure.result.end) + 1)
        IN  /\ first = [y |-> py, m |-> pm, d |-> 1]
            /\ last.y = py /\ last.m = pm
            /\ after = [y |-> c.y, m |-> c.m, d |-> 1]
            /\ pure.result.start = LocalMidnight(LocalDay(pure.result.start))
            /\ pure.result.end = LocalMidnight(LocalDay(pure.result.end))
            /\ (c = [y |-> 2024, m |-> 3, d |-> 10]) =>
                  /\ toApiDate(pure.result.start) = <<2, 0, 2, 4, 0, 2, 0, 1>>
                  /\ toApiDate(pure.result.end) = <<2, 0, 2, 4, 0, 2, 2, 9>>
            /\ (c = [y |-> 2024, m |-> 1, d |-> 1]) =>
                  /\ toApiDate(pure.result.start) = <<2, 0, 2, 3, 1, 2, 0, 1>>
                  /\ toApiDate(pure.result.end) = <<2, 0, 2, 3, 1, 2, 3, 1>>

\* C23 witness: 'Letzter Monat' on 2024-03-10 is February of a leap year
C23_Witness ==
    /\ pure.fn = "preset" /\ pure.arg = <<"Letzter Monat">>
    /\ toApiDate(now) = <<2, 0, 2, 4, 0, 3, 1, 0>>
    /\ toApiDate(pure.result.end) = <<2, 0, 2, 4, 0, 2, 2, 9>>

\* C24: Dates that represent the same local day have the same key, the
\* key of that day, however they were made (daysAgo, parsed from a key,
\* built from calendar fields, a later hour of the day), under every
\* UTC offset.
C24_SameDaySameKey ==
    pure.fn = "toApiDate" =>
        \A i \in 1 .. Len(pure.result) :
            pure.result[i] = KeyOfDay(LocalDay(now) - pure.arg[1])

\* C24 witness: a day whose local midnight lies on the previous UTC day
C24_Witness ==
    /\ pure.fn = "toApiDate" /\ tz > 0
    /\ pure.result[1] = pure.result[2]
    /\ toISODate(daysAgo(pure.arg[1])) # pure.result[1]

\* markedDates={buildMarkedDates(picking.start, picking.end)}
markedDates == buildMarkedDates(picking.start, picking.end)

\* C25: for a complete selection (start, end) exactly the days start .. end
\* are marked, the day start alone is flagged start-of-range and the day
\* end alone end-of-range, under every UTC offset.
C25_MarksExactlyTheRange ==
    (rangeModalOpen /\ PickingComplete(picking)) =>
        markedDates =
            { [key |-> KeyOfDay(n),
               startingDay |-> n = KeyDay(picking.start),
               endingDay |-> n = KeyDay(picking.end)] :
              n \in KeyDay(picking.start) .. KeyDay(picking.end) }

\* C26: AuthProvider starts with isLoading true and no token, and stays
\* loading until the startup read completes; when the read completes with
\* the two stored values (a customer text that parses, or none), the token
\* is the stored token, the customer the stored customer (both null when
\* nothing is stored) and isLoading is false.
C26_StartupRead ==
    /\ appEv.op = "init" =>
          /\ auth = [token |-> NoToken, customer |-> NoCustomer, isLoading |-> TRUE]
          /\ loadRead = LoadStarted
    /\ auth.isLoading <=> ~loadRead.settled
    /\ (/\ appEv.op = "loaded"
        /\ loadRead.token # <<"fail">> /\ loadRead.customer # <<"fail">>) =>
          LET storedToken == loadRead.token[2]
              storedCustomer == loadRead.customer[2]
          IN  /\ ~auth.isLoading
              /\ auth.token = storedToken
              /\ storedCustomer = NotStored => auth.customer = NoCustomer
              /\ \A c \in Customers :
                    storedCustomer = <<JSONstringify(c)>> => auth.customer = <<c>>
              /\ (storedToken = NotStored /\ storedCustomer = NotStored) =>
                    auth.token = NoToken /\ auth.customer = NoCustomer

\* C26 witness: a stored session is restored and the guard opens the
\* dashboard
C26_Witness ==
    /\ appEv.op = "loaded" /\ appEv.auth.isLoading /\ ~auth.isLoading
    /\ store = [auth_token |-> <<"t0">>,
                auth_customer |-> <<JSONstringify(SessionCustomer)>>]
    /\ auth.token = <<"t0">> /\ auth.customer = <<SessionCustomer>>
    /\ appEv.segment = "index" /\ segment = "dashboard"

\* C27: signIn(token, customer) writes the token under auth_token and the
\* JSON-serialized customer under auth_customer; when it completes, the
\* in-memory token and customer are its arguments, and are what the store
\* holds.
C27_SignInWritesAndSets ==
    /\ appEv.op = "signInToken" => store.auth_token = appEv.arg
    /\ appEv.op = "signedIn" =>
          LET call == appEv.arg[1]
          IN  /\ auth.token = <<call.token>>
              /\ auth.customer = call.customer
              /\ store.auth_customer = <<JSONstringify(call.customer[1])>>
              /\ store.auth_token = <<call.token>>
              /\ JSONparses(store.auth_customer[1])
              /\ <<JSONparse(store.auth_customer[1])>> = auth.customer

\* C28: signOut deletes both credential keys from the store, auth_token
\* first; when it completes the in-memory token and customer are both
\* null, whatever session existed before.
C28_SignOutDeletesAndClears ==
    /\ appEv.op = "signOutToken" => store.auth_token = NotStored
    /\ appEv.op = "signedOut" =>
          /\ store.auth_customer = NotStored
          /\ auth.token = NoToken
          /\ auth.customer = NoCustomer

\* C28 witness: a session with token and customer is signed out, the store
\* is empty and the guard has left the dashboard
C28_Witness ==
    /\ appEv.op = "signedOut"
    /\ TruthyStr(appEv.auth.token) /\ appEv.auth.customer # NoCustomer
    /\ appEv.store.auth_customer # NotStored
    /\ store = [auth_token |-> NotStored, auth_customer |-> NotStored]
    /\ auth.token = NoToken /\ auth.customer = NoCustomer
    /\ appEv.segment = "dashboard" /\ segment = "index"

\* C29: the navigation guard redirects nowhere while isLoading is true;
\* once isLoading is false it redirects to /dashboard when there is a
\* token and the screen is not the dashboard, to / when there is no token
\* and the screen is the dashboard, and nowhere otherwise.
C29_GuardRedirects ==
    LET before == appEv.segment
        hasToken == auth.token # NoToken /\ auth.token # <<"">>
    IN  /\ auth.isLoading => segment = before
        /\ (~auth.isLoading /\ hasToken /\ before # "dashboard") =>
              segment = "dashboard"
        /\ (~auth.isLoading /\ ~hasToken /\ before = "dashboard") =>
              segment = "index"
        /\ (~auth.isLoading /\ hasToken /\ before = "dashboard") =>
              segment = "dashboard"
        /\ (~auth.isLoading /\ ~hasToken /\ before # "dashboard") =>
              segment = "index"

\* C29 witness: a sign-in on the login screen completes after the startup
\* read and the guard opens the dashboard
C29_Witness ==
    /\ appEv.op = "signedIn" /\ ~auth.isLoading
    /\ appEv.auth.token = NoToken /\ TruthyStr(auth.token)
    /\ appEv.segment = "index" /\ segment = "dashboard"

\* a text with nothing but blanks
BlankText(t) == \A i \in 1 .. Len(t) : t[i] = " "

\* C30: a login submission whose email or password is empty after trimming
\* sets the error 'Please enter your email and password.' and goes no
\* further: no login request is issued and signIn is not called.
C30_ValidationStaysLocal ==
    [][ (appEv'.op = "login" /\ (BlankText(login.email) \/ BlankText(login.password))) =>
            /\ login'.error = <<"Please enter your email and password.">>
            /\ ~login'.loading
            /\ loginCall' = loginCall /\ loginCalls' = loginCalls
            /\ signInCall' = signInCall
            /\ store' = store /\ auth' = auth ]_vars

\* C30 witness: an email with a password of blanks only is refused and
\* nothing has been sent
C30_Witness ==
    /\ appEv.op = "login" /\ appEv.arg = <<"invalid">>
    /\ login.email = <<" ", "a", "@", "b", " ">> /\ login.password = <<" ", " ">>
    /\ login.error = <<"Please enter your email and password.">>
    /\ loginCall = <<>> /\ loginCalls = 0 /\ signInCall = <<>>

\* the login response that settled last
LastLoginOutcome == appEv.arg[1]

\* C31: on a login response with success status the token passed to
\* signIn is the first present value among token, access_token and
\* data.token, in that order, and the customer passed is the response's
\* customer.
C31_TokenPriority ==
    (appEv.op = "response" /\ LastLoginOutcome.kind = "response"
     /\ LastLoginOutcome.ok) =>
        LET d == LastLoginOutcome.data
        IN  /\ signInCall # <<>>
            /\ signInCall[1].step = "token"
            /\ signInCall[1].customer = d.customer
            /\ d.token # <<>> => <<signInCall[1].token>> = d.token
            /\ (d.token = <<>> /\ d.access_token # <<>>) =>
                  <<signInCall[1].token>> = d.access_token
            /\ (d.token = <<>> /\ d.access_token = <<>> /\ d.dataToken # <<>>) =>
                  <<signInCall[1].token>> = d.dataToken

\* C31 witness: a response carrying all three tokens: signIn gets token
C31_Witness ==
    /\ appEv.op = "response" /\ LastLoginOutcome.ok
    /\ LastLoginOutcome.data.token = <<"t1">>
    /\ LastLoginOutcome.data.access_token = <<"t2">>
    /\ LastLoginOutcome.data.dataToken = <<"t3">>
    /\ signInCall # <<>> /\ signInCall[1].token = "t1"
    /\ signInCall[1].customer = LastLoginOutcome.data.customer

\* C32: on a login response with a non-success status signIn is not
\* called, and the error displayed by the login screen is the response's
\* message if it has one, else its error field, else
\* 'Login failed (<status>).'.
C32_LoginFailureMessage ==
    [][ (appEv'.op = "response" /\ appEv'.arg[1].kind = "response"
         /\ ~appEv'.arg[1].ok) =>
            LET o == appEv'.arg[1]
                has(x) == x # <<>> /\ x # <<"">>
            IN  /\ signInCall' = <<>> /\ signInCall = <<>>
                /\ store' = store /\ auth' = auth
                /\ loginCall' = <<>>
                /\ loginCall[1].live =>
                      /\ segment' = "index"
                      /\ ~login'.loading
                      /\ has(o.data.message) => login'.error = o.data.message
                      /\ (~has(o.data.message) /\ has(o.data.error)) =>
                            login'.error = o.data.error
                      /\ (~has(o.data.message) /\ ~has(o.data.error)) =>
                            login'.error =
                               <<"Login failed (" \o ToString(o.status) \o ").">>
                      /\ (~has(o.data.message) /\ ~has(o.data.error)
                          /\ o.status = 500) =>
                            login'.error = <<"Login failed (500).">> ]_vars

\* C32 witness: a 500 whose body is not JSON is displayed by its status
C32_Witness ==
    /\ appEv.op = "response" /\ ~LastLoginOutcome.ok
    /\ LastLoginOutcome.kind = "response" /\ LastLoginOutcome.status = 500
    /\ segment = "index" /\ ~login.loading
    /\ login.error = <<"Login failed (500).">>
    /\ signInCall = <<>> /\ auth.token = NoToken

\* C33: pressing Log Out calls signOut exactly once: while a sign-out is
\* pending no further signOut call is issued, so at most one is under way.
C33_OneSignOutAtATime == Len(signOutCall) <= 1

\* C33, amended: a press of Log Out calls signOut once and disables the
\* button; the button stays disabled as long as that dashboard is mounted,
\* and while it is disabled no signOut call is issued.
C33_DisabledWhileMounted ==
    [][ /\ appEv'.op = "logout" =>
              /\ segment = "dashboard" /\ ~loggingOut /\ loggingOut'
              /\ Len(signOutCall') = Len(signOutCall) + 1
        /\ appEv'.op # "logout" => Len(signOutCall') <= Len(signOutCall)
        /\ loggingOut => Len(signOutCall') <= Len(signOutCall)
        /\ (loggingOut /\ segment' = segment) => loggingOut' ]_vars

\* C33 witness: the sign-out is half done and the button still disabled
C33_Witness ==
    /\ appEv.op = "signOutToken" /\ segment = "dashboard" /\ loggingOut
    /\ signOutCall = <<[step |-> "customer"]>>
    /\ TruthyStr(auth.token)

\* C34: committing a range whose start and end days are those of the
\* committed range (Anwenden right after opening, or the preset that made
\* the range) issues no figures request.
C34_SameRangeNoRequest ==
    [][ ( /\ ev'.op \in {"apply", "preset"}
          /\ toApiDate(startDate') = toApiDate(startDate)
          /\ toApiDate(endDate') = toApiDate(endDate) )
        => inflight' = inflight ]_vars

\* C35: whenever figures are displayed (no spinner, no error box) they are
\* the response to the request for the committed range.
C35_FiguresOfCommittedRange ==
    FetchState = "Success" =>
        /\ figures[1].start = toApiDate(startDate)
        /\ figures[1].end = toApiDate(endDate)

\* C36: a dashboard in Loading leaves Loading when its request settles,
\* whatever the outcome: success, non-success status, transport failure,
\* unparsable body.
C36_LoadingEnds ==
    /\ [](ev.op = "settle" => FetchState # "Loading")
    /\ (FetchState = "Loading") ~> (FetchState # "Loading")

\* C36 witness: a request for a newly committed range ended with a body
\* that is no JSON, and the spinner is gone
C36_Witness ==
    /\ ev.op = "settle" /\ LastOutcome.kind = "badjson"
    /\ ev.fetch = "Loading" /\ FetchState = "Error"
    /\ activePreset = "Letzte 7 Tage"

C38_SignInOutlastsStartupRead ==
    /\ [](appEv.op = "signedIn" =>
             /\ auth.token = <<appEv.arg[1].token>>
             /\ auth.customer = appEv.arg[1].customer)
    /\ [][ (appEv.op = "signedIn" /\ appEv'.op \notin {"signedIn", "signedOut"})
           => (auth'.token = auth.token /\ auth'.customer = auth.customer) ]_vars

\* C39: after mount isLoading becomes false and stays false, whatever the
\* startup read finds: values, nothing, a read failure, a stored customer
\* that does not parse.
C39_StartupLoadingEnds ==
    /\ [](appEv.op = "loaded" => ~auth.isLoading)
    /\ <>[](~auth.isLoading)

\* C39 witness: the stored customer does not parse; the token is restored,
\* loading is over and the guard has opened the dashboard
C39_Witness ==
    /\ appEv.op = "loaded"
    /\ loadRead.customer = <<"ok", <<BrokenCustomerText>>>>
    /\ ~auth.isLoading /\ auth.token = <<"t0">> /\ auth.customer = NoCustomer
    /\ appEv.segment = "index" /\ segment = "dashboard"

\* C40: when a login attempt has finished (here: after the startup read),
\* the user is either signed in with a non-empty token and on the
\* dashboard, or on the login screen with an error displayed and the form
\* enabled again.
C40_LoginEndsInSessionOrError ==
    ( /\ ~auth.isLoading
      /\ \/ appEv.op \in {"signedIn", "signInFailed"}
         \/ appEv.op = "response" /\ loginCall = <<>> ) =>
        \/ TruthyStr(auth.token) /\ segment = "dashboard"
        \/ segment = "index" /\ login.error # NoLoginError /\ ~login.loading

====
